---- MODULE Spec2Model ----
(***************************************************************************)
(* Model of src/agent.py: the CareerState shared memory, the seven agents  *)
(* and the sequential loop of run_career_builder_helper.                   *)
(***************************************************************************)
EXTENDS Integers, Sequences, FiniteSets, TLC

VARIABLES
    agent_sequence,        \* the list built at agent.py:287, as agent class names
    current_agent_index,   \* agent.py:302 (0-based, as in the code)
    adk_state,             \* the instance dictionary of the CareerState object
    pc,                    \* position in run_career_builder_helper
    result,                \* the last agent.execute(): value returned or fault raised, names written
    halt,                  \* how the while loop was left
    trace,                 \* history: one entry per call of agent.execute()
    stdout,                \* what line 324 printed
    escaped,               \* the fault that left run_career_builder_helper, if any
    last_update            \* the last direct update_state call: state before, kwargs, fault

vars == <<agent_sequence, current_agent_index, adk_state, pc, result, halt,
          trace, stdout, escaped, last_update>>

-----------------------------------------------------------------------------
(* Bounds of the model *)

\* longest agent sequence drawn at Init (the canonical one is added to them)
MaxLen == 2

\* times the model follows the loop executing the agent at one index
MaxRepeat == 2

\* direct update_state calls followed by the update_state specification
MaxCalls == 2

-----------------------------------------------------------------------------
(* Python values: None, str and dict, all as records of one shape *)

NoneV == [type |-> "NoneType", text |-> "", keys |-> {}]

Str(s) == [type |-> "str", text |-> s, keys |-> {}]

Dict(ks) == [type |-> "dict", text |-> "", keys |-> ks]

\* the text stored under a key of the dictionaries of the model
ItemOf(k) ==
    IF k = "state" THEN "California" ELSE IF k = "city" THEN "Berkeley" ELSE "item"

TruthyIsNotNone(v) == v.type # "NoneType"

\* bool(v): None, "" and {} are false
Truthy(v) ==
    \/ v.type = "str" /\ v.text # ""
    \/ v.type = "dict" /\ v.keys # {}

\* v[k] for a str key k: [exc, val]
Subscript(v, k) ==
    IF v.type = "dict"
    THEN IF k \in v.keys
         THEN [exc |-> "none", val |-> Str(ItemOf(k))]
         ELSE [exc |-> "KeyError", val |-> NoneV]
    ELSE [exc |-> "TypeError", val |-> NoneV]

\* f"{v}"
Format(v) ==
    IF v.type = "str" THEN v.text
    ELSE IF v.type = "NoneType" THEN "None"
    ELSE IF v.keys = {} THEN "{}"
    ELSE IF v.keys = {"state", "city"} THEN "{'state': 'California', 'city': 'Berkeley'}"
    ELSE IF v.keys = {"state"} THEN "{'state': 'California'}"
    ELSE IF v.keys = {"city"} THEN "{'city': 'Berkeley'}"
    ELSE "{...}"

-----------------------------------------------------------------------------
(* CareerState *)

\* the attributes assigned by CareerState.__init__
Fields ==
    {"interest_area", "suggested_streams", "user_location", "target_stream",
     "college_results", "criteria_details", "reviewer_notes", "final_summary"}

\* CareerState(): every field None
CareerState_init == [n \in Fields |-> NoneV]

\* names every CareerState object answers to through its class
ClassAttrs == {"update_state", "__init__", "__class__", "__dict__"}

\* hasattr(self, key)
HasAttr(attrs, key) == key \in DOMAIN attrs \/ key \in ClassAttrs

\* setattr(self, key, value): [state, exc]
SetAttr(attrs, key, value) ==
    IF key = "__class__"
    THEN [state |-> attrs, exc |-> "TypeError"]
    ELSE IF key = "__dict__"
    THEN IF value.type = "dict"
         THEN [state |-> [k \in value.keys |-> Str(ItemOf(k))], exc |-> "none"]
         ELSE [state |-> attrs, exc |-> "TypeError"]
    ELSE [state |-> [n \in DOMAIN attrs \cup {key} |->
                        IF n = key THEN value ELSE attrs[n]],
          exc |-> "none"]

\* the body of the for loop of update_state, for one entry of kwargs
UpdateEntry(attrs, key, value) ==
    IF HasAttr(attrs, key)
    THEN SetAttr(attrs, key, value)
    ELSE [state |-> attrs, exc |-> "none"]

\* update_state(**kwargs), kwargs as the sequence of its (key, value) entries
RECURSIVE update_state(_, _)
update_state(attrs, kwargs) ==
    IF kwargs = <<>>
    THEN [state |-> attrs, exc |-> "none"]
    ELSE LET u == UpdateEntry(attrs, Head(kwargs)[1], Head(kwargs)[2])
         IN  IF u.exc # "none" THEN u ELSE update_state(u.state, Tail(kwargs))

\* self.state.update_state(...): an instance attribute of that name hides the method
CallUpdateState(attrs, kwargs) ==
    IF "update_state" \in DOMAIN attrs
    THEN [state |-> attrs, exc |-> "TypeError"]
    ELSE update_state(attrs, kwargs)

\* the names update_state(**kwargs) passes to setattr before it ends or raises
RECURSIVE SetKeys(_, _)
SetKeys(attrs, kwargs) ==
    IF kwargs = <<>>
    THEN {}
    ELSE LET key == Head(kwargs)[1]
             u == UpdateEntry(attrs, key, Head(kwargs)[2])
         IN  IF u.exc # "none" THEN {}
             ELSE (IF HasAttr(attrs, key) THEN {key} ELSE {})
                  \cup SetKeys(u.state, Tail(kwargs))

\* the names self.state.update_state(**kwargs) writes
WrittenBy(attrs, kwargs) ==
    IF "update_state" \in DOMAIN attrs THEN {} ELSE SetKeys(attrs, kwargs)

-----------------------------------------------------------------------------
(* Agents: execute() as a function of the state, giving the state it leaves,
   either the value returned or the fault raised, and the names it wrote *)

Returned(s, r) == [state |-> s, ret |-> r, exc |-> "none", wrote |-> {}]

Raised(s, e) == [state |-> s, ret |-> "none", exc |-> e, wrote |-> {}]

\* reading self.state.<n> for each n of names
CanRead(attrs, names) == names \subseteq DOMAIN attrs

\* update_state(...) then return r
UpdateThenReturn(attrs, kwargs, r) ==
    LET u == CallUpdateState(attrs, kwargs)
        w == WrittenBy(attrs, kwargs)
    IN  IF u.exc # "none"
        THEN [Raised(u.state, u.exc) EXCEPT !.wrote = w]
        ELSE [Returned(u.state, r) EXCEPT !.wrote = w]

MockAgent_execute(attrs) == Raised(attrs, "NotImplementedError")

mock_interest == "Biotechnology and sustainable energy"

InterestAgent_execute(attrs) ==
    UpdateThenReturn(attrs, <<<<"interest_area", Str(mock_interest)>>>>, "NEXT_STATE")

mock_streams ==
    "1. Applied Biological Sciences (Focus on Bio-engineering), "
    \o "2. Environmental Science and Policy, "
    \o "3. Chemical Engineering with a focus on Renewable Fuels."

StreamResearchAgent_execute(attrs) ==
    IF ~CanRead(attrs, {"interest_area"})
    THEN Raised(attrs, "AttributeError")
    ELSE IF ~Truthy(attrs["interest_area"])
    THEN Returned(attrs, "ERROR_STATE")
    ELSE UpdateThenReturn(attrs, <<<<"suggested_streams", Str(mock_streams)>>>>,
                          "AWAIT_SELECTION")

mock_location_StateOnly == Dict({"state"})

mock_location == Dict({"state", "city"})

mock_selection == "Applied Biological Sciences (Focus on Bio-engineering)"

LocationAgent_execute_NoSelection(attrs) ==
    IF ~CanRead(attrs, {"suggested_streams"})
    THEN Raised(attrs, "AttributeError")
    ELSE UpdateThenReturn(attrs, <<<<"user_location", mock_location>>>>, "NEXT_STATE")

LocationAgent_execute(attrs) ==
    IF ~CanRead(attrs, {"suggested_streams"})
    THEN Raised(attrs, "AttributeError")
    ELSE UpdateThenReturn(attrs,
            <<<<"user_location", mock_location>>,
              <<"target_stream", Str(mock_selection)>>>>,
            "NEXT_STATE")

mock_colleges ==
    "1. University of California, Berkeley (Bioengineering), "
    \o "2. Stanford University (Sustainable Science and Tech), "
    \o "3. UC Davis (Applied Biology)."

CollegeResearchAgent_execute(attrs) ==
    IF ~CanRead(attrs, {"target_stream", "user_location"})
    THEN Raised(attrs, "AttributeError")
    ELSE LET stream == attrs["target_stream"]
             location == attrs["user_location"]
         IN  IF ~Truthy(stream) \/ ~Truthy(location)
             THEN Returned(attrs, "ERROR_STATE")
             ELSE IF Subscript(location, "city").exc # "none"
             THEN Raised(attrs, Subscript(location, "city").exc)
             ELSE IF Subscript(location, "state").exc # "none"
             THEN Raised(attrs, Subscript(location, "state").exc)
             ELSE UpdateThenReturn(attrs, <<<<"college_results", Str(mock_colleges)>>>>,
                                   "NEXT_STATE")

mock_criteria ==
    "UC Berkeley: GPA 4.0+, SAT/ACT Optional, essays focused on innovation. "
    \o "Stanford: Extremely selective, requires two recommendation letters, unique project portfolio. "
    \o "UC Davis: Minimum GPA 3.5, emphasis on high school science courses."

CriteriaAgent_execute(attrs) ==
    IF ~CanRead(attrs, {"college_results", "target_stream"})
    THEN Raised(attrs, "AttributeError")
    ELSE IF ~Truthy(attrs["college_results"]) \/ ~Truthy(attrs["target_stream"])
    THEN Returned(attrs, "ERROR_STATE")
    ELSE UpdateThenReturn(attrs, <<<<"criteria_details", Str(mock_criteria)>>>>,
                          "NEXT_STATE")

mock_review_notes ==
    "All data appears consistent. The suggested streams align with 'Biotechnology and sustainable energy'. "
    \o "College names are accurately matched to the location and target stream. "
    \o "The criteria are specific and look accurate based on general knowledge of these institutions."

ReviewerAgent_execute(attrs) ==
    IF ~CanRead(attrs, {"interest_area", "suggested_streams", "user_location",
                        "college_results", "criteria_details"})
    THEN Raised(attrs, "AttributeError")
    ELSE UpdateThenReturn(attrs, <<<<"reviewer_notes", Str(mock_review_notes)>>>>,
                          "NEXT_STATE")

\* the f-string of SummaryAgent.execute, given city and state already subscripted
SummaryText(attrs, city, state) ==
    "\n--- Career Builder Helper Summary ---\n\n"
    \o "**User Interest:** " \o Format(attrs["interest_area"]) \o "\n\n"
    \o "**Selected Stream:** " \o Format(attrs["target_stream"])
    \o " (from the initial suggestions: " \o Format(attrs["suggested_streams"]) \o ")\n\n"
    \o "**Target Location:** " \o Format(city) \o ", " \o Format(state) \o "\n\n"
    \o "**Top 3 College Options for " \o Format(attrs["target_stream"]) \o ":**\n"
    \o Format(attrs["college_results"]) \o "\n\n"
    \o "**Admission Criteria & Process Overview:**\n"
    \o Format(attrs["criteria_details"]) \o "\n\n"
    \o "**Reviewer Note (Validation):**\n"
    \o Format(attrs["reviewer_notes"]) \o "\n\n"
    \o "This detailed plan provides a robust starting point for your education journey.\n"

SummaryAgent_execute(attrs) ==
    IF ~CanRead(attrs, {"interest_area", "target_stream", "suggested_streams",
                        "user_location"})
    THEN Raised(attrs, "AttributeError")
    ELSE LET city == Subscript(attrs["user_location"], "city")
             state == Subscript(attrs["user_location"], "state")
         IN  IF city.exc # "none" THEN Raised(attrs, city.exc)
             ELSE IF state.exc # "none" THEN Raised(attrs, state.exc)
             ELSE IF ~CanRead(attrs, {"college_results", "criteria_details",
                                      "reviewer_notes"})
             THEN Raised(attrs, "AttributeError")
             ELSE UpdateThenReturn(attrs,
                     <<<<"final_summary", Str(SummaryText(attrs, city.val, state.val))>>>>,
                     "FLOW_COMPLETE")

-----------------------------------------------------------------------------
(* A test double: a MockAgent subclass whose execute() passes kwargs to
   update_state and then returns the value, or raises the fault, it is told to *)

StubReturns == {"NEXT_STATE", "AWAIT_SELECTION", "ERROR_STATE", "FLOW_COMPLETE", "UNKNOWN"}

StubRaises == {"RuntimeError"}

StubKwargs ==
    { <<>>,
      <<<<"final_summary", Str("S")>>>>,
      <<<<"user_location", Dict({"state"})>>>>,
      <<<<"bogus", Str("x")>>, <<"interest_area", Str("")>>,
        <<"target_stream", Str("T")>>, <<"user_location", Dict({})>>,
        <<"college_results", Str("")>>>> }

StubAgent_execute(attrs, kwargs, outcome) ==
    LET u == CallUpdateState(attrs, kwargs)
        w == WrittenBy(attrs, kwargs)
    IN  IF u.exc # "none" THEN [Raised(u.state, u.exc) EXCEPT !.wrote = w]
        ELSE IF outcome \in StubRaises THEN [Raised(u.state, outcome) EXCEPT !.wrote = w]
        ELSE [Returned(u.state, outcome) EXCEPT !.wrote = w]

-----------------------------------------------------------------------------
(* run_career_builder_helper *)

CanonicalLocationBeforeStreams ==
    << "InterestAgent", "LocationAgent", "StreamResearchAgent", "CollegeResearchAgent",
       "CriteriaAgent", "ReviewerAgent", "SummaryAgent" >>

\* lines 287-295
Canonical ==
    << "InterestAgent", "StreamResearchAgent", "LocationAgent", "CollegeResearchAgent",
       "CriteriaAgent", "ReviewerAgent", "SummaryAgent" >>

ConcreteAgents == {Canonical[i] : i \in DOMAIN Canonical}

AgentClasses == ConcreteAgents \cup {"MockAgent", "StubAgent"}

\* agent.execute() for the agents whose execute() is in the source
Execute(class, attrs) ==
    CASE class = "InterestAgent" -> InterestAgent_execute(attrs)
      [] class = "StreamResearchAgent" -> StreamResearchAgent_execute(attrs)
      [] class = "LocationAgent" -> LocationAgent_execute(attrs)
      [] class = "CollegeResearchAgent" -> CollegeResearchAgent_execute(attrs)
      [] class = "CriteriaAgent" -> CriteriaAgent_execute(attrs)
      [] class = "ReviewerAgent" -> ReviewerAgent_execute(attrs)
      [] class = "SummaryAgent" -> SummaryAgent_execute(attrs)
      [] OTHER -> MockAgent_execute(attrs)

\* the classes `except Exception` catches, among the faults of the model
ExceptionClasses ==
    {"NotImplementedError", "TypeError", "KeyError", "AttributeError", "RuntimeError"}

CaughtOnlyKeyError(e) == e = "KeyError"

\* line 320: except Exception as e
Caught(e) == e \in ExceptionClasses

AdvanceOnlyOnNextState == {"NEXT_STATE"}

\* the signals on which the loop moves to the next agent (line 316)
AdvanceSignals == {"NEXT_STATE", "AWAIT_SELECTION"}

\* Each branch of lines 310-322 gives the next index, how the loop is left (if
\* it is), the next position and the fault that leaves the function (if any).

\* lines 316-318
OnAdvance(idx) ==
    [index |-> idx + 1, halt |-> "none", pc |-> "while", escaped |-> "none"]

OnOtherBreaks(idx) ==
    [index |-> idx, halt |-> "error", pc |-> "print", escaped |-> "none"]

\* no branch of the if/elif chain taken: the loop goes round with the same index
OnOther(idx) ==
    [index |-> idx, halt |-> "none", pc |-> "while", escaped |-> "none"]

OnCompleteNoBreak(idx) == OnAdvance(idx)

\* lines 310-312
OnComplete(idx) ==
    [index |-> idx, halt |-> "complete", pc |-> "print", escaped |-> "none"]

OnErrorNoBreak(idx) == OnAdvance(idx)

\* lines 313-315
OnError(idx) ==
    [index |-> idx, halt |-> "error", pc |-> "print", escaped |-> "none"]

\* lines 320-322, or the fault leaving the function when no except clause matches
OnFault(e, idx) ==
    IF Caught(e)
    THEN [index |-> idx, halt |-> "fault", pc |-> "print", escaped |-> "none"]
    ELSE [index |-> idx, halt |-> "uncaught", pc |-> "done", escaped |-> e]

\* lines 307-322: what the loop does with the outcome res of agent.execute()
Handle(res, idx) ==
    IF res.exc # "none" THEN OnFault(res.exc, idx)
    ELSE IF res.ret = "FLOW_COMPLETE" THEN OnComplete(idx)
    ELSE IF res.ret = "ERROR_STATE" THEN OnError(idx)
    ELSE IF res.ret \in AdvanceSignals THEN OnAdvance(idx)
    ELSE OnOther(idx)

abort_notice == "\nFlow aborted. Check logs for details."

\* line 324: adk_state.final_summary or "\nFlow aborted. ..."
Printed(attrs) ==
    IF Truthy(attrs["final_summary"]) THEN attrs["final_summary"] ELSE Str(abort_notice)

\* calls of agent.execute() made so far at index idx
Executions(idx) == Cardinality({j \in DOMAIN trace : trace[j].index = idx})

NoResult == [ret |-> "none", exc |-> "none", wrote |-> {}]

NoUpdate == [before |-> CareerState_init, kwargs |-> <<>>, exc |-> "none", calls |-> 0]

SequencesUpTo(n) == UNION {[1..k -> AgentClasses] : k \in 0..n}

Init ==
    /\ agent_sequence \in SequencesUpTo(MaxLen) \cup {Canonical}
    /\ current_agent_index = 0
    /\ adk_state = CareerState_init
    /\ pc = "while"
    /\ result = NoResult
    /\ halt = "none"
    /\ trace = <<>>
    /\ stdout = NoneV
    /\ escaped = "none"
    /\ last_update = NoUpdate

\* lines 303-308 for an agent of the source: result = agent.execute()
ExecuteAgent ==
    /\ pc = "while"
    /\ current_agent_index < Len(agent_sequence)
    /\ Executions(current_agent_index) < MaxRepeat
    /\ agent_sequence[current_agent_index + 1] # "StubAgent"
    /\ LET out == Execute(agent_sequence[current_agent_index + 1], adk_state)
       IN  /\ adk_state' = out.state
           /\ result' = [ret |-> out.ret, exc |-> out.exc, wrote |-> out.wrote]
           /\ trace' = Append(trace, [index |-> current_agent_index,
                                      ret |-> out.ret, exc |-> out.exc])
    /\ pc' = "dispatch"
    /\ UNCHANGED <<agent_sequence, current_agent_index, halt, stdout, escaped, last_update>>

\* lines 303-308 for the test double
ExecuteStub ==
    /\ pc = "while"
    /\ current_agent_index < Len(agent_sequence)
    /\ Executions(current_agent_index) < MaxRepeat
    /\ agent_sequence[current_agent_index + 1] = "StubAgent"
    /\ \E kwargs \in StubKwargs, outcome \in StubReturns \cup StubRaises :
         LET out == StubAgent_execute(adk_state, kwargs, outcome)
         IN  /\ adk_state' = out.state
             /\ result' = [ret |-> out.ret, exc |-> out.exc, wrote |-> out.wrote]
             /\ trace' = Append(trace, [index |-> current_agent_index,
                                        ret |-> out.ret, exc |-> out.exc])
    /\ pc' = "dispatch"
    /\ UNCHANGED <<agent_sequence, current_agent_index, halt, stdout, escaped, last_update>>

DispatchResetOnError ==
    /\ pc = "dispatch"
    /\ LET h == Handle(result, current_agent_index)
       IN  /\ current_agent_index' = h.index
           /\ halt' = h.halt
           /\ pc' = h.pc
           /\ escaped' = h.escaped
           /\ adk_state' = IF h.halt \in {"error", "fault"} THEN CareerState_init
                           ELSE adk_state
    /\ UNCHANGED <<agent_sequence, result, trace, stdout, last_update>>

\* lines 310-322
Dispatch ==
    /\ pc = "dispatch"
    /\ LET h == Handle(result, current_agent_index)
       IN  /\ current_agent_index' = h.index
           /\ halt' = h.halt
           /\ pc' = h.pc
           /\ escaped' = h.escaped
    /\ UNCHANGED <<agent_sequence, adk_state, result, trace, stdout, last_update>>

\* line 303, the condition false: the loop ends with no break
LoopExit ==
    /\ pc = "while"
    /\ current_agent_index >= Len(agent_sequence)
    /\ halt' = "exhausted"
    /\ pc' = "print"
    /\ UNCHANGED <<agent_sequence, current_agent_index, adk_state, result, trace,
                   stdout, escaped, last_update>>

\* line 324
PrintSummary ==
    /\ pc = "print"
    /\ IF "final_summary" \in DOMAIN adk_state
       THEN stdout' = Printed(adk_state) /\ escaped' = escaped
       ELSE stdout' = stdout /\ escaped' = "AttributeError"
    /\ pc' = "done"
    /\ UNCHANGED <<agent_sequence, current_agent_index, adk_state, result, halt,
                   trace, last_update>>

Next == ExecuteAgent \/ ExecuteStub \/ Dispatch \/ LoopExit \/ PrintSummary

Spec == Init /\ [][Next]_vars

\* the orchestrator's state, in the words of the design: RUNNING while the loop
\* runs, HALTED_ERROR after the break of line 315 or 322, HALTED_SUCCESS after
\* the break of line 312 or when the loop condition fails
MachineState ==
    IF halt = "none" THEN "RUNNING"
    ELSE IF halt \in {"complete", "exhausted"} THEN "HALTED_SUCCESS"
    ELSE "HALTED_ERROR"

-----------------------------------------------------------------------------
(* update_state called directly on a new CareerState *)

UpdateKeys ==
    {"interest_area", "user_location", "final_summary",
     "bogus", "update_state", "__class__", "__dict__"}

UpdateValues == {Str("x"), Dict({"state", "city"})}

UpdateEntries == {<<k, v>> : k \in UpdateKeys, v \in UpdateValues}

\* keyword arguments of one or two entries; a call cannot repeat a keyword
UpdateKwargs ==
    {<<e>> : e \in UpdateEntries}
    \cup {p \in {<<e1, e2>> : e1 \in UpdateEntries, e2 \in UpdateEntries} :
               p[1][1] # p[2][1]}

InitUpdate ==
    /\ agent_sequence = <<>>
    /\ current_agent_index = 0
    /\ adk_state = CareerState_init
    /\ pc = "update"
    /\ result = NoResult
    /\ halt = "none"
    /\ trace = <<>>
    /\ stdout = NoneV
    /\ escaped = "none"
    /\ last_update = NoUpdate

\* adk_state.update_state(**kwargs)
UpdateStateCall ==
    /\ pc = "update"
    /\ last_update.calls < MaxCalls
    /\ \E kwargs \in UpdateKwargs :
         LET u == CallUpdateState(adk_state, kwargs)
         IN  /\ adk_state' = u.state
             /\ last_update' = [before |-> adk_state, kwargs |-> kwargs, exc |-> u.exc,
                                calls |-> last_update.calls + 1]
    /\ UNCHANGED <<agent_sequence, current_agent_index, pc, result, halt, trace,
                   stdout, escaped>>

NextUpdate == UpdateStateCall

SpecUpdate == InitUpdate /\ [][NextUpdate]_vars

-----------------------------------------------------------------------------
(* Properties of the orchestrator loop, under Spec *)

\* the class of the agent whose execute() made entry j of the trace
ClassAt(j) == agent_sequence[trace[j].index + 1]

\* entries 1..j-1 of the trace each returned NEXT_STATE or AWAIT_SELECTION
AdvancedBefore(j) ==
    \A i \in 1..(j - 1) : trace[i].ret \in {"NEXT_STATE", "AWAIT_SELECTION"}

\* entries 1..j of the trace are the agents 0..j-1, each executed once, in order
ExactlyStepsUpTo(j) ==
    /\ \A i \in 1..j : trace[i].index = i - 1
    /\ Len(trace) = j
    /\ current_agent_index = j - 1

\* C1 (halt on error): when steps 0..k-1 each returned NEXT_STATE or
\* AWAIT_SELECTION and step k returned ERROR_STATE, exactly the steps 0..k have
\* been executed, each once, no later step is ever executed, and the loop is
\* left in HALTED_ERROR.
C1_HaltOnError ==
    \A j \in DOMAIN trace :
        (trace[j].ret = "ERROR_STATE" /\ AdvancedBefore(j)) =>
            /\ ExactlyStepsUpTo(j)
            /\ pc \in {"dispatch", "print", "done"}
            /\ pc # "dispatch" => MachineState = "HALTED_ERROR"

C1_Witness ==
    /\ pc = "done"
    /\ Len(agent_sequence) = 2
    /\ Len(trace) = 2
    /\ trace[1].ret = "AWAIT_SELECTION"
    /\ trace[2].ret = "ERROR_STATE"
    /\ MachineState = "HALTED_ERROR"

\* C2 (completion): when steps 0..k-1 each returned NEXT_STATE or
\* AWAIT_SELECTION and step k returned FLOW_COMPLETE, execution stops at k in
\* HALTED_SUCCESS and no step after k is executed, whatever steps remain.
C2_Completion ==
    \A j \in DOMAIN trace :
        (trace[j].ret = "FLOW_COMPLETE" /\ AdvancedBefore(j)) =>
            /\ ExactlyStepsUpTo(j)
            /\ pc \in {"dispatch", "print", "done"}
            /\ pc # "dispatch" => MachineState = "HALTED_SUCCESS"

C2_Witness ==
    /\ pc = "done"
    /\ Len(agent_sequence) = 2
    /\ Len(trace) = 1
    /\ trace[1].ret = "FLOW_COMPLETE"
    /\ MachineState = "HALTED_SUCCESS"

\* C3 (termination): the loop makes at most length(sequence) calls of
\* execute(), whatever each call returns or raises.
C3_Termination == Len(trace) <= Len(agent_sequence)

\* C4 (output contract): what is printed is decided by the halt state: a run
\* ending in HALTED_SUCCESS prints the summary that was written, a run ending
\* in HALTED_ERROR prints the abort notice and no summary, even when an
\* earlier step wrote final_summary.
C4_OutputContract ==
    pc = "done" =>
        /\ (MachineState = "HALTED_SUCCESS" /\ Truthy(adk_state["final_summary"]))
              => stdout = adk_state["final_summary"]
        /\ MachineState = "HALTED_ERROR" => stdout = Str(abort_notice)

Reads(class) ==
    CASE class = "StreamResearchAgent" -> {"interest_area"}
      [] class = "LocationAgent" -> {"suggested_streams"}
      [] class = "CollegeResearchAgent" -> {"target_stream", "user_location"}
      [] class = "CriteriaAgent" -> {"college_results", "target_stream"}
      [] class = "ReviewerAgent" ->
            {"interest_area", "suggested_streams", "user_location",
             "college_results", "criteria_details"}
      [] class = "SummaryAgent" ->
            {"interest_area", "target_stream", "suggested_streams", "user_location",
             "college_results", "criteria_details", "reviewer_notes"}
      [] OTHER -> {}

\* the field is unset: still None, as __init__ left it
Absent(attrs, f) == attrs[f] = NoneV

\* C8 (missing precondition): a concrete step executed in a state where a
\* field it reads is absent writes no field and returns ERROR_STATE.
C8_MissingPrecondition ==
    [][ ( /\ pc = "while"
          /\ pc' = "dispatch"
          /\ agent_sequence[current_agent_index + 1] \in ConcreteAgents
          /\ \E f \in Reads(agent_sequence[current_agent_index + 1]) :
                Absent(adk_state, f) )
        => (adk_state' = adk_state /\ result'.ret = "ERROR_STATE") ]_vars

\* C9 (no fault leaves a step): execute() of a concrete step returns one of
\* the four control signals and never raises, whatever the state holds.
C9_NoFaultLeavesAStep ==
    \A j \in DOMAIN trace :
        ClassAt(j) \in ConcreteAgents =>
            /\ trace[j].exc = "none"
            /\ trace[j].ret \in {"NEXT_STATE", "AWAIT_SELECTION",
                                 "ERROR_STATE", "FLOW_COMPLETE"}

\* NEXT_STATE for AWAIT_SELECTION and the reverse
Swapped(res) ==
    [res EXCEPT !.ret = IF res.ret = "NEXT_STATE" THEN "AWAIT_SELECTION" ELSE "NEXT_STATE"]

\* C10 (AWAIT_SELECTION is CONTINUE): whichever of NEXT_STATE and
\* AWAIT_SELECTION a step returned, the loop moves from RUNNING(i) to
\* RUNNING(i+1), with no suspension and no change of the shared state, and the
\* move is the one it makes on the other of the two signals.
C10_AwaitIsContinue ==
    [][ (pc = "dispatch" /\ result.exc = "none"
            /\ result.ret \in {"NEXT_STATE", "AWAIT_SELECTION"})
        => /\ current_agent_index' = current_agent_index + 1
           /\ pc' = "while"
           /\ halt' = "none"
           /\ MachineState' = "RUNNING"
           /\ adk_state' = adk_state
           /\ escaped' = escaped
           /\ Handle(Swapped(result), current_agent_index).index = current_agent_index'
           /\ Handle(Swapped(result), current_agent_index).pc = pc'
           /\ Handle(Swapped(result), current_agent_index).halt = halt' ]_vars

C10_Witness ==
    /\ pc = "while"
    /\ result.ret = "AWAIT_SELECTION"
    /\ ClassAt(Len(trace)) = "StreamResearchAgent"
    /\ current_agent_index = trace[Len(trace)].index + 1
    /\ MachineState = "RUNNING"

-----------------------------------------------------------------------------
(* Properties of update_state, under SpecUpdate *)

\* the entries of kwargs whose key is one of the eight declared fields
ValidEntries(kwargs) == {j \in DOMAIN kwargs : kwargs[j][1] \in Fields}

\* C6 (unknown-key safety): an update_state call mixing valid and invalid
\* names never fails, sets every valid entry to its value, and leaves every
\* field no valid entry names as it was before the call.
C6_UnknownKeySafety ==
    last_update.calls > 0 =>
        LET kwargs == last_update.kwargs
            named == {kwargs[j][1] : j \in ValidEntries(kwargs)}
        IN  /\ last_update.exc = "none"
            /\ \A j \in ValidEntries(kwargs) :
                  /\ kwargs[j][1] \in DOMAIN adk_state
                  /\ adk_state[kwargs[j][1]] = kwargs[j][2]
            /\ \A f \in (Fields \cap DOMAIN last_update.before) \ named :
                  /\ f \in DOMAIN adk_state
                  /\ adk_state[f] = last_update.before[f]

\* C7 (fixed field set): a new CareerState holds exactly the eight declared
\* fields, all absent; after any update_state calls the state still holds
\* exactly those names, and a call naming only other names changed nothing.
C7_FixedFieldSet ==
    /\ last_update.calls = 0 => adk_state = [f \in Fields |-> NoneV]
    /\ DOMAIN adk_state = Fields
    /\ (last_update.calls > 0 /\ ValidEntries(last_update.kwargs) = {})
          => adk_state = last_update.before

-----------------------------------------------------------------------------
(* Properties of the run of the canonical sequence, under Spec *)

\* the fields each step of the canonical flow is to populate
Designated(class) ==
    CASE class = "InterestAgent" -> {"interest_area"}
      [] class = "StreamResearchAgent" -> {"suggested_streams"}
      [] class = "LocationAgent" -> {"user_location", "target_stream"}
      [] class = "CollegeResearchAgent" -> {"college_results"}
      [] class = "CriteriaAgent" -> {"criteria_details"}
      [] class = "ReviewerAgent" -> {"reviewer_notes"}
      [] class = "SummaryAgent" -> {"final_summary"}
      [] OTHER -> {}

\* a step of the loop that calls agent.execute()
ExecuteStep == pc = "while" /\ pc' = "dispatch"

\* C11 (write-once in the canonical flow): in the run of the canonical
\* sequence from the empty state every execute() is the first one of its step
\* and writes exactly the fields designated to that step, the state changes
\* in no other step, and the run ends with the seven steps executed; each of
\* the eight fields is designated to exactly one step, so each is written
\* exactly once.
C11_WriteOnceCanonical ==
    [][ agent_sequence = Canonical =>
          /\ ExecuteStep =>
                /\ Executions(current_agent_index) = 0
                /\ result'.wrote = Designated(agent_sequence[current_agent_index + 1])
          /\ adk_state' # adk_state => ExecuteStep
          /\ pc' = "done" =>
                /\ Len(trace) = 7
                /\ {trace[j].index : j \in DOMAIN trace} = 0..6
          /\ \A f \in Fields :
                Cardinality({i \in DOMAIN agent_sequence :
                                f \in Designated(agent_sequence[i])}) = 1 ]_vars

C11_Witness ==
    /\ agent_sequence = Canonical
    /\ pc = "done"
    /\ Len(trace) = 7
    /\ \A f \in Fields : adk_state[f] # NoneV

\* C12 (read-after-write in the canonical flow): in the run of the canonical
\* sequence from the empty state, every field a step reads is set when the
\* step reads it, and the step designated to populate it has executed before
\* and returned a signal other than ERROR_STATE.
C12_ReadAfterWriteCanonical ==
    [][ (agent_sequence = Canonical /\ ExecuteStep) =>
          \A f \in Reads(agent_sequence[current_agent_index + 1]) :
              /\ ~Absent(adk_state, f)
              /\ \E j \in DOMAIN trace :
                    /\ f \in Designated(ClassAt(j))
                    /\ trace[j].exc = "none"
                    /\ trace[j].ret # "ERROR_STATE" ]_vars

C12_Witness ==
    /\ agent_sequence = Canonical
    /\ pc = "dispatch"
    /\ ClassAt(Len(trace)) = "SummaryAgent"
    /\ result.ret = "FLOW_COMPLETE"

-----------------------------------------------------------------------------
(* The search tool and the retry options *)

\* lines 26-31: the options object built by setup_adk_environment
http_retry_options ==
    [attempts |-> 5, exp_base |-> 7, initial_delay |-> 1,
     http_status_codes |-> {429, 500, 503, 504}]

\* lines 41-46: what setup_adk_environment returns, and every agent gets as
\* self.tools: placeholder strings, the options object is not among them
setup_adk_environment ==
    [logger |-> "logger",
     search_tool |-> "GoogleSearchTool_Instance",
     retry_config |-> "HttpRetryOptions_Config",
     adk_plugins |-> "LoggingPlugin_Instance"]

\* calls of self.tools['search_tool'].run(...) one execute() of the class
\* makes: the call is a comment in every agent (lines 120-121, 169-170,
\* 196-199), the result is a literal
SearchAttempts(class) == 0

\* time one execute() of the class waits between attempts of a search call
SearchWait(class) == 0

\* status codes a failing search call may answer with, in the model
StatusCodes == {404, 429, 500, 503, 504}

RECURSIVE Power(_, _)
Power(b, n) == IF n = 0 THEN 1 ELSE b * Power(b, n - 1)

\* initial_delay * exp_base^0 + ... + initial_delay * exp_base^(n-1)
RECURSIVE TotalWait(_, _)
TotalWait(opts, n) ==
    IF n = 0 THEN 0
    ELSE TotalWait(opts, n - 1) + opts.initial_delay * Power(opts.exp_base, n - 1)

\* StreamResearchAgent is executed with its input present, so that it gets
\* to the place of its search call (line 117)
SearchingStep ==
    /\ ExecuteStep
    /\ agent_sequence[current_agent_index + 1] = "StreamResearchAgent"
    /\ adk_state["interest_area"] \notin {NoneV, Str(""), Dict({})}

-----------------------------------------------------------------------------
(* The end of the loop *)

\* every call of execute() made so far returned NEXT_STATE or AWAIT_SELECTION
AllAdvanced ==
    \A j \in DOMAIN trace :
        trace[j].exc = "none" /\ trace[j].ret \in {"NEXT_STATE", "AWAIT_SELECTION"}

\* C15 (running off the end is success): a run in which every step returned
\* NEXT_STATE or AWAIT_SELECTION (the empty sequence included) has executed
\* every step once, in order, ends with the index equal to the length of the
\* sequence in HALTED_SUCCESS, and tells its caller so: what it prints is not
\* the abort notice.
C15_OffTheEndIsSuccess ==
    (pc = "done" /\ AllAdvanced) =>
        /\ Len(trace) = Len(agent_sequence)
        /\ \A i \in DOMAIN trace : trace[i].index = i - 1
        /\ current_agent_index = Len(agent_sequence)
        /\ MachineState = "HALTED_SUCCESS"
        /\ stdout # Str(abort_notice)

-----------------------------------------------------------------------------
(* Who writes the shared state *)

\* the attributes whose value differs between two states of the CareerState
Changed(a, b) ==
    {f \in DOMAIN a \cup DOMAIN b :
        \/ f \notin DOMAIN a
        \/ f \notin DOMAIN b
        \/ a[f] # b[f]}

\* C16 (only the executing step mutates the shared state): every step of the
\* loop itself (advancing the index, halting on FLOW_COMPLETE, on ERROR_STATE
\* or on a fault, leaving the loop, printing) leaves every field of the state
\* as it was, and while step k is executed the only fields that change are
\* those step k wrote.
C16_OnlyExecutingStepWrites ==
    [][ /\ ~ExecuteStep => adk_state' = adk_state
        /\ ExecuteStep =>
              /\ trace'[Len(trace')].index = current_agent_index
              /\ current_agent_index' = current_agent_index
              /\ Changed(adk_state, adk_state') \subseteq result'.wrote ]_vars

\* a step wrote the state and returned ERROR_STATE, the loop halted on it and
\* printed: what the step wrote is still there
C16_Witness ==
    /\ pc = "done"
    /\ halt = "error"
    /\ result.wrote # {}
    /\ Changed(CareerState_init, adk_state) # {}

-----------------------------------------------------------------------------
(* The canonical run *)

\* the loop is scheduled: run_career_builder_helper is one sequential call, so
\* a step that can be taken is taken
SpecLive == Spec /\ WF_vars(Next)

\* what holds all along the run of the canonical sequence: the steps are
\* executed in order, none returns ERROR_STATE or raises, and at the end the
\* loop has halted on FLOW_COMPLETE after seven executions with every field
\* populated and the summary printed
CanonicalRunIsClean ==
    agent_sequence = Canonical =>
        /\ Len(trace) <= 7
        /\ \A j \in DOMAIN trace :
              /\ trace[j].index = j - 1
              /\ trace[j].exc = "none"
              /\ trace[j].ret = IF j = 7 THEN "FLOW_COMPLETE"
                                ELSE IF j = 2 THEN "AWAIT_SELECTION" ELSE "NEXT_STATE"
        /\ halt \in {"none", "complete"}
        /\ escaped = "none"
        /\ pc = "done" =>
              /\ MachineState = "HALTED_SUCCESS"
              /\ halt = "complete"
              /\ Len(trace) = 7
              /\ \A f \in Fields : adk_state[f] \notin {NoneV, Str(""), Dict({})}
              /\ stdout = adk_state["final_summary"]
              /\ stdout # Str(abort_notice)

\* C17 (canonical run succeeds): the run of the seven-step canonical sequence
\* from the empty state always reaches HALTED_SUCCESS, after exactly seven
\* executions in the order of the sequence, no step returning ERROR_STATE or
\* raising, with all eight fields populated at the halt and the final summary,
\* not the abort notice, printed.
C17_CanonicalRunSucceeds ==
    /\ []CanonicalRunIsClean
    /\ (agent_sequence = Canonical) ~> (pc = "done" /\ MachineState = "HALTED_SUCCESS")

\* the canonical run has ended and printed the summary SummaryAgent wrote
C17_Witness ==
    /\ agent_sequence = Canonical
    /\ pc = "done"
    /\ halt = "complete"
    /\ stdout = adk_state["final_summary"]
    /\ stdout.type = "str"
    /\ \A j \in 1..7 : ClassAt(j) = Canonical[j]

-----------------------------------------------------------------------------
(* A return value the loop does not know *)

Signals == {"NEXT_STATE", "AWAIT_SELECTION", "ERROR_STATE", "FLOW_COMPLETE"}

\* the outcome r of a call of execute(): a value returned, none of the four
Unrecognised(r) == r.exc = "none" /\ r.ret \notin Signals

\* C18 (unrecognised return value): when execute() returns, without raising,
\* a value that is none of NEXT_STATE, AWAIT_SELECTION, ERROR_STATE and
\* FLOW_COMPLETE, the loop neither advances nor halts: the index is unchanged,
\* the loop goes on, and the step executed next is the same step.
C18_UnrecognisedReturn ==
    [][ /\ (pc = "dispatch" /\ Unrecognised(result)) =>
              /\ current_agent_index' = current_agent_index
              /\ pc' = "while"
              /\ halt' = "none"
              /\ MachineState' = "RUNNING"
              /\ adk_state' = adk_state
        /\ (pc = "while" /\ trace # <<>> /\ Unrecognised(trace[Len(trace)])) =>
              /\ current_agent_index = trace[Len(trace)].index
              /\ current_agent_index < Len(agent_sequence)
              /\ pc' # "print"
              /\ ExecuteStep => trace'[Len(trace')].index = trace[Len(trace)].index ]_vars

\* a step returned an unknown value and was executed again right after
C18_Witness ==
    \E j \in DOMAIN trace :
        /\ j + 1 \in DOMAIN trace
        /\ Unrecognised(trace[j])
        /\ trace[j + 1].index = trace[j].index

-----------------------------------------------------------------------------
(* Validation of the inputs of a step *)

ValidatingAgents == {"StreamResearchAgent", "CollegeResearchAgent", "CriteriaAgent"}

\* the values of a field that was set, to nothing
EmptyValues == {Str(""), Dict({})}

\* C19 (presence checks are emptiness checks): a validating step
\* (StreamResearchAgent, CollegeResearchAgent, CriteriaAgent) executed while a
\* field it requires holds an empty string or an empty mapping returns
\* ERROR_STATE and writes nothing, which is what it does when that field is
\* absent, although the field was set by an earlier step.
C19_EmptyIsAbsent ==
    [][ (ExecuteStep /\ agent_sequence[current_agent_index + 1] \in ValidatingAgents) =>
          \A f \in Reads(agent_sequence[current_agent_index + 1]) :
              adk_state[f] \in EmptyValues =>
                  LET absent == [adk_state EXCEPT ![f] = NoneV]
                      onAbsent == Execute(agent_sequence[current_agent_index + 1], absent)
                  IN  /\ result'.ret = "ERROR_STATE"
                      /\ result'.exc = "none"
                      /\ result'.wrote = {}
                      /\ adk_state' = adk_state
                      /\ onAbsent.ret = result'.ret
                      /\ onAbsent.exc = result'.exc
                      /\ onAbsent.state = absent ]_vars

\* an earlier step set a required field to an empty value, and the validating
\* step executed next returned ERROR_STATE
C19_Witness ==
    /\ pc = "dispatch"
    /\ Len(trace) = 2
    /\ ClassAt(2) \in ValidatingAgents
    /\ \E f \in Reads(ClassAt(2)) : adk_state[f] \in EmptyValues
    /\ result.ret = "ERROR_STATE"
    /\ result.wrote = {}

====
